---- MODULE Spec2Model ----
(***************************************************************************)
(* Model of S3Service (S3Service.py): the probing service that audits the  *)
(* permissions of one S3 bucket.  The state is the service's mode, the     *)
(* bucket entity the caller passes to every operation, and a record of the *)
(* last call: what it was given, the bucket before it, the backend         *)
(* requests it issued, the backend's responses and how the call ended.     *)
(* The first call is the constructor's.                                    *)
(***************************************************************************)
EXTENDS Integers, Sequences, FiniteSets, TLC

VARIABLES
    aws_creds_configured,  \* self.aws_creds_configured
    s3_client,             \* self.s3_client: "unsigned" or "signed"
    bucket,                \* the s3Bucket the caller passes to the operations
    pre,                   \* the bucket as it was when the last call started
    lastOp,                \* name of the last operation called
    given,                 \* what the last call was given
    result,                \* how the last call ended
    requests,              \* backend requests the last call issued, in order
    responses,             \* backend responses the last call received, in order
    listing,               \* the pages the backend held for the last enumeration
    calls                  \* number of operations called so far

vars == <<aws_creds_configured, s3_client,
          bucket, pre, lastOp, given, result, requests, responses, listing, calls>>

service == <<aws_creds_configured, s3_client>>

-----------------------------------------------------------------------------
(* Bounds of the model. *)

\* most operations the caller runs on the bucket
MaxCalls == 3
\* longest grant list an ACL read returns
MaxGrants == 1
\* most pages a listing has
MaxPages == 3
\* enumerate_bucket_objects is called while the bucket holds fewer objects than this
MaxObjects == 2

-----------------------------------------------------------------------------
(* Values. *)

\* Permission and BucketExists enumerations (s3Bucket.py)
Permission == {"UNKNOWN", "ALLOWED", "DENIED"}
BucketExists == {"UNKNOWN", "YES", "NO"}

allUsersURI == "uri=http://acs.amazonaws.com/groups/global/AllUsers"
authUsersURI == "uri=http://acs.amazonaws.com/groups/global/AuthenticatedUsers"

\* the group URIs parse_found_acl compares grantees with
AuthUsersGroup == "http://acs.amazonaws.com/groups/global/AuthenticatedUsers"
AllUsersGroup == "http://acs.amazonaws.com/groups/global/AllUsers"

Capabilities == {"Read", "Write", "ReadACP", "WriteACP", "FullControl"}

AuthFlags == {"AuthUsersRead", "AuthUsersWrite", "AuthUsersReadACP",
              "AuthUsersWriteACP", "AuthUsersFullControl"}
AllFlags == {"AllUsersRead", "AllUsersWrite", "AllUsersReadACP",
             "AllUsersWriteACP", "AllUsersFullControl"}
Flags == AuthFlags \cup AllFlags

\* name of the flag of principal class p ("AuthUsers" or "AllUsers") and capability c
FlagName(p, c) ==
    IF p = "AuthUsers"
    THEN CASE c = "Read" -> "AuthUsersRead"
           [] c = "Write" -> "AuthUsersWrite"
           [] c = "ReadACP" -> "AuthUsersReadACP"
           [] c = "WriteACP" -> "AuthUsersWriteACP"
           [] c = "FullControl" -> "AuthUsersFullControl"
    ELSE CASE c = "Read" -> "AllUsersRead"
           [] c = "Write" -> "AllUsersWrite"
           [] c = "ReadACP" -> "AllUsersReadACP"
           [] c = "WriteACP" -> "AllUsersWriteACP"
           [] c = "FullControl" -> "AllUsersFullControl"

\* a new s3Bucket: existence and every flag UNKNOWN, no ACL, no objects
s3Bucket(name) ==
    [name |-> name, exists |-> "UNKNOWN", foundACL |-> <<>>,
     AuthUsersRead |-> "UNKNOWN", AuthUsersWrite |-> "UNKNOWN",
     AuthUsersReadACP |-> "UNKNOWN", AuthUsersWriteACP |-> "UNKNOWN",
     AuthUsersFullControl |-> "UNKNOWN",
     AllUsersRead |-> "UNKNOWN", AllUsersWrite |-> "UNKNOWN",
     AllUsersReadACP |-> "UNKNOWN", AllUsersWriteACP |-> "UNKNOWN",
     AllUsersFullControl |-> "UNKNOWN",
     objects |-> <<>>, objects_enumerated |-> FALSE]

\* s3Bucket.addObject: append to the bucket's collection
addObject(b, obj) == [b EXCEPT !.objects = Append(@, obj)]

\* s3BucketObject(key=, last_modified=, size=) as built from a listing item
s3BucketObject(item) ==
    [key |-> item.Key, last_modified |-> item.LastModified, size |-> item.Size]

-----------------------------------------------------------------------------
(* The backend: what a request can be answered with. *)

\* error codes a ClientError can carry
ErrorCodes == {"404", "AccessDenied", "AllAccessDisabled", "InternalError"}

Success(body) == [ok |-> TRUE, body |-> body]
ClientError(code) == [ok |-> FALSE, code |-> code]

Failures == {ClientError(c) : c \in ErrorCodes}

\* responses of the requests whose body the service does not read
PlainResponses == {Success("")} \cup Failures

\* how a call ends
Return == [kind |-> "return"]
Raise(kind, what) == [kind |-> kind, what |-> what]

\* the test for a denial that knows "AccessDenied" only
AccessDeniedClass_OneCode(e) == e.code = "AccessDenied"

\* e.response['Error']['Code'] == "AccessDenied" or ... == "AllAccessDisabled"
AccessDeniedClass(e) == e.code = "AccessDenied" \/ e.code = "AllAccessDisabled"

-----------------------------------------------------------------------------
(* The operations: each gives the bucket after the call, how the call      *)
(* ended, and the backend requests issued and responses received.          *)

Out(b, res, reqs, resps) ==
    [bucket |-> b, result |-> res, requests |-> reqs, responses |-> resps]

\* isinstance(bucket, s3Bucket)
IsS3Bucket(obj) == DOMAIN obj = DOMAIN s3Bucket("")

\* check_bucket_exists taking every ClientError for "not found"
check_bucket_exists_AnyErrorIsNo(b, head) ==
    IF ~IsS3Bucket(b)
    THEN Out(b, Raise("ValueError", "Passed object was not type s3Bucket"), <<>>, <<>>)
    ELSE
    LET bucket_exists == head.ok
    IN  Out([b EXCEPT !.exists = IF bucket_exists THEN "YES" ELSE "NO"],
            Return,
            <<[api |-> "head_bucket", Bucket |-> b.name]>>,
            <<head>>)

\* check_bucket_exists leaving the question open when the probe fails with a
\* code other than "404"
check_bucket_exists_ErrorIsUnknown(b, head) ==
    IF ~IsS3Bucket(b)
    THEN Out(b, Raise("ValueError", "Passed object was not type s3Bucket"), <<>>, <<>>)
    ELSE Out([b EXCEPT !.exists = IF head.ok THEN "YES"
                                  ELSE IF head.code = "404" THEN "NO"
                                  ELSE "UNKNOWN"],
             Return,
             <<[api |-> "head_bucket", Bucket |-> b.name]>>,
             <<head>>)

\* S3Service.check_bucket_exists
check_bucket_exists(b, head) ==
    IF ~IsS3Bucket(b)
    THEN Out(b, Raise("ValueError", "Passed object was not type s3Bucket"), <<>>, <<>>)
    ELSE
    LET bucket_exists == IF ~head.ok /\ head.code = "404" THEN FALSE ELSE TRUE
    IN  Out([b EXCEPT !.exists = IF bucket_exists THEN "YES" ELSE "NO"],
            Return,
            <<[api |-> "head_bucket", Bucket |-> b.name]>>,
            <<head>>)

\* one iteration of parse_found_acl's loop over the grants
ApplyGrant(b, grant) ==
    IF grant.Grantee.Type = "Group"
    THEN IF "URI" \in DOMAIN grant.Grantee /\ grant.Grantee.URI = AuthUsersGroup
         THEN CASE grant.Permission = "FULL_CONTROL" ->
                       [b EXCEPT !.AuthUsersRead = "ALLOWED",
                                 !.AuthUsersWrite = "ALLOWED",
                                 !.AuthUsersReadACP = "ALLOWED",
                                 !.AuthUsersWriteACP = "ALLOWED",
                                 !.AuthUsersFullControl = "ALLOWED"]
                [] grant.Permission = "READ" -> [b EXCEPT !.AuthUsersRead = "ALLOWED"]
                [] grant.Permission = "READ_ACP" -> [b EXCEPT !.AuthUsersReadACP = "ALLOWED"]
                [] grant.Permission = "WRITE" -> [b EXCEPT !.AuthUsersWrite = "ALLOWED"]
                [] grant.Permission = "WRITE_ACP" -> [b EXCEPT !.AuthUsersWriteACP = "ALLOWED"]
                [] OTHER -> b
         ELSE IF "URI" \in DOMAIN grant.Grantee /\ grant.Grantee.URI = AllUsersGroup
         THEN CASE grant.Permission = "FULL_CONTROL" ->
                       [b EXCEPT !.AllUsersRead = "ALLOWED",
                                 !.AllUsersWrite = "ALLOWED",
                                 !.AllUsersReadACP = "ALLOWED",
                                 !.AllUsersWriteACP = "ALLOWED",
                                 !.AllUsersFullControl = "ALLOWED"]
                [] grant.Permission = "READ" -> [b EXCEPT !.AllUsersRead = "ALLOWED"]
                [] grant.Permission = "READ_ACP" -> [b EXCEPT !.AllUsersReadACP = "ALLOWED"]
                [] grant.Permission = "WRITE" -> [b EXCEPT !.AllUsersWrite = "ALLOWED"]
                [] grant.Permission = "WRITE_ACP" -> [b EXCEPT !.AllUsersWriteACP = "ALLOWED"]
                [] OTHER -> b
         ELSE b
    ELSE b

\* for grant in bucket.foundACL['Grants']
RECURSIVE ApplyGrants(_, _)
ApplyGrants(b, grants) ==
    IF grants = <<>> THEN b
    ELSE ApplyGrants(ApplyGrant(b, Head(grants)), Tail(grants))

\* "All permissions not explicitly granted in the ACL are denied"
DenyUnknown(b) ==
    [f \in DOMAIN b |-> IF f \in Flags /\ b[f] = "UNKNOWN" THEN "DENIED" ELSE b[f]]

\* parse_found_acl without its closing pass over the flags still UNKNOWN
parse_found_acl_NoDefault(b) ==
    IF b.foundACL = <<>>
    THEN b
    ELSE IF "Grants" \in DOMAIN b.foundACL[1]
         THEN ApplyGrants(b, b.foundACL[1].Grants)
         ELSE b

\* parse_found_acl testing the grant list for truth: an empty list is skipped
parse_found_acl_EmptySkipped(b) ==
    IF b.foundACL = <<>>
    THEN b
    ELSE IF "Grants" \in DOMAIN b.foundACL[1] /\ b.foundACL[1].Grants # <<>>
         THEN DenyUnknown(ApplyGrants(b, b.foundACL[1].Grants))
         ELSE b

\* S3Service.parse_found_acl
parse_found_acl(b) ==
    IF b.foundACL = <<>>
    THEN b
    ELSE IF "Grants" \in DOMAIN b.foundACL[1]
         THEN DenyUnknown(ApplyGrants(b, b.foundACL[1].Grants))
         ELSE b

\* S3Service.check_perm_read_acl
check_perm_read_acl(creds, b, acl) ==
    IF b.exists # "YES"
    THEN Out(b, Raise("ValueError", "Bucket might not exist"), <<>>, <<>>)
    ELSE
    LET reqs == <<[api |-> "get_bucket_acl", Bucket |-> b.name]>>
    IN  IF acl.ok
        THEN Out(parse_found_acl([b EXCEPT !.foundACL = <<acl.body>>]),
                 Return, reqs, <<acl>>)
        ELSE IF AccessDeniedClass(acl)
        THEN Out(parse_found_acl(IF creds
                                 THEN [b EXCEPT !.AuthUsersReadACP = "DENIED"]
                                 ELSE [b EXCEPT !.AllUsersReadACP = "DENIED"]),
                 Return, reqs, <<acl>>)
        ELSE Out(b, Raise("ClientError", acl.code), reqs, <<acl>>)

\* check_perm_read writing AuthUsersRead whatever AllUsersRead holds
check_perm_read_Unconditional(creds, b, resp) ==
    IF b.exists # "YES"
    THEN Out(b, Raise("ValueError", "Bucket might not exist"), <<>>, <<>>)
    ELSE
    LET reqs == <<[api |-> "list_objects_v2", Bucket |-> b.name, MaxKeys |-> 0]>>
        perm == IF resp.ok THEN "ALLOWED" ELSE "DENIED"
    IN  IF ~resp.ok /\ ~AccessDeniedClass(resp)
        THEN Out(b, Raise("ClientError", resp.code), reqs, <<resp>>)
        ELSE IF creds
        THEN Out([b EXCEPT !.AuthUsersRead = perm], Return, reqs, <<resp>>)
        ELSE Out([b EXCEPT !.AllUsersRead = perm], Return, reqs, <<resp>>)

\* S3Service.check_perm_read
check_perm_read(creds, b, resp) ==
    IF b.exists # "YES"
    THEN Out(b, Raise("ValueError", "Bucket might not exist"), <<>>, <<>>)
    ELSE
    LET reqs == <<[api |-> "list_objects_v2", Bucket |-> b.name, MaxKeys |-> 0]>>
        list_bucket_perm_allowed == resp.ok
        perm == IF list_bucket_perm_allowed THEN "ALLOWED" ELSE "DENIED"
    IN  IF ~resp.ok /\ ~AccessDeniedClass(resp)
        THEN Out(b, Raise("ClientError", resp.code), reqs, <<resp>>)
        ELSE IF creds
        THEN Out(IF b.AllUsersRead # "ALLOWED"
                 THEN [b EXCEPT !.AuthUsersRead = perm]
                 ELSE b,
                 Return, reqs, <<resp>>)
        ELSE Out([b EXCEPT !.AllUsersRead = perm], Return, reqs, <<resp>>)

\* str(datetime.datetime.now().timestamp()) + '.txt'
TimestampFile(now) == <<now, ".txt">>

\* the except clause of check_perm_write, entered with the bucket as the try block left it
WriteExcept(creds, b, e, reqs, resps) ==
    IF AccessDeniedClass(e)
    THEN Out(IF creds
             THEN [b EXCEPT !.AuthUsersWrite = "DENIED"]
             ELSE [b EXCEPT !.AllUsersWrite = "DENIED"],
             Return, reqs, resps)
    ELSE Out(b, Raise("ClientError", e.code), reqs, resps)

\* check_perm_write recording a successful upload for AllUsers in both modes
check_perm_write_MarksAllUsers(creds, b, now, put, del) ==
    IF b.exists # "YES"
    THEN Out(b, Raise("ValueError", "Bucket might not exist"), <<>>, <<>>)
    ELSE
    LET timestamp_file == TimestampFile(now)
        putReq == [api |-> "put_object", Bucket |-> b.name, Key |-> timestamp_file,
                   Body |-> ""]
        delReq == [api |-> "delete_object", Bucket |-> b.name, Key |-> timestamp_file]
        written == IF creds
                   THEN [b EXCEPT !.AuthUsersWrite = "ALLOWED", !.AllUsersWrite = "ALLOWED"]
                   ELSE [b EXCEPT !.AllUsersWrite = "ALLOWED"]
    IN  IF ~put.ok
        THEN WriteExcept(creds, b, put, <<putReq>>, <<put>>)
        ELSE IF ~del.ok
        THEN WriteExcept(creds, written, del, <<putReq, delReq>>, <<put, del>>)
        ELSE Out(written, Return, <<putReq, delReq>>, <<put, del>>)

\* S3Service.check_perm_write
check_perm_write(creds, b, now, put, del) ==
    IF b.exists # "YES"
    THEN Out(b, Raise("ValueError", "Bucket might not exist"), <<>>, <<>>)
    ELSE
    LET timestamp_file == TimestampFile(now)
        putReq == [api |-> "put_object", Bucket |-> b.name, Key |-> timestamp_file,
                   Body |-> ""]
        delReq == [api |-> "delete_object", Bucket |-> b.name, Key |-> timestamp_file]
        written == IF creds
                   THEN IF b.AllUsersWrite # "ALLOWED"
                        THEN [b EXCEPT !.AuthUsersWrite = "ALLOWED"]
                        ELSE b
                   ELSE [b EXCEPT !.AllUsersWrite = "ALLOWED"]
    IN  IF ~put.ok
        THEN WriteExcept(creds, b, put, <<putReq>>, <<put>>)
        ELSE IF ~del.ok
        THEN WriteExcept(creds, written, del, <<putReq, delReq>>, <<put, del>>)
        ELSE Out(written, Return, <<putReq, delReq>>, <<put, del>>)

\* ','.join(uris): the joined string as its parts, a "," between two URIs
RECURSIVE Join(_)
Join(uris) ==
    IF Len(uris) <= 1 THEN uris
    ELSE <<Head(uris), ",">> \o Join(Tail(uris))

\* if flag == Permission.ALLOWED: uris.append(uri)
AppendIf(uris, flag, uri) == IF flag = "ALLOWED" THEN Append(uris, uri) ELSE uris

\* args[param] = ','.join(uris) whatever the length of uris
WithGrant_Always(args, param, uris) == args @@ (param :> Join(uris))

\* if len(uris) > 0: args[param] = ','.join(uris)
WithGrant(args, param, uris) ==
    IF Len(uris) > 0 THEN args @@ (param :> Join(uris)) ELSE args

\* the arguments check_perm_write_acl passes to put_bucket_acl
PutBucketAclArgs(creds, b) ==
    LET readURIs == AppendIf(AppendIf(<<>>, b.AuthUsersRead, authUsersURI),
                             b.AllUsersRead, allUsersURI)
        writeURIs == AppendIf(AppendIf(<<>>, b.AuthUsersWrite, authUsersURI),
                              b.AllUsersWrite, allUsersURI)
        readAcpURIs == AppendIf(AppendIf(<<>>, b.AuthUsersReadACP, authUsersURI),
                                b.AllUsersReadACP, allUsersURI)
        writeAcpURIs == Append(AppendIf(AppendIf(<<>>, b.AuthUsersWriteACP, authUsersURI),
                                        b.AllUsersWriteACP, allUsersURI),
                               IF creds THEN authUsersURI ELSE allUsersURI)
        fullControlURIs == AppendIf(AppendIf(<<>>, b.AuthUsersFullControl, authUsersURI),
                                    b.AllUsersFullControl, allUsersURI)
    IN  WithGrant(
        WithGrant(
        WithGrant(
        WithGrant(
        WithGrant("Bucket" :> b.name,
                  "GrantRead", readURIs),
                  "GrantWrite", writeURIs),
                  "GrantReadACP", readAcpURIs),
                  "GrantWriteACP", writeAcpURIs),
                  "GrantFullControl", fullControlURIs)

\* the outcome of the ACL write recorded without overwriting a flag at ALLOWED
WriteACLProbe_KeepsAllowed(creds, b, put) ==
    LET reqs == <<[api |-> "put_bucket_acl", args |-> PutBucketAclArgs(creds, b)]>>
        mine == IF creds THEN "AuthUsersWriteACP" ELSE "AllUsersWriteACP"
    IN  IF put.ok
        THEN Out(IF creds
                 THEN IF b.AllUsersWriteACP # "ALLOWED"
                      THEN [b EXCEPT !.AuthUsersWriteACP = "ALLOWED"]
                      ELSE b
                 ELSE [b EXCEPT !.AllUsersWriteACP = "ALLOWED"],
                 Return, reqs, <<put>>)
        ELSE IF AccessDeniedClass(put)
        THEN Out(IF b[mine] = "ALLOWED" THEN b ELSE [b EXCEPT ![mine] = "DENIED"],
                 Return, reqs, <<put>>)
        ELSE Out(b, Raise("ClientError", put.code), reqs, <<put>>)

\* check_perm_write_acl after its precondition: the request and its outcome
WriteACLProbe(creds, b, put) ==
    LET reqs == <<[api |-> "put_bucket_acl", args |-> PutBucketAclArgs(creds, b)]>>
    IN  IF put.ok
        THEN Out(IF creds
                 THEN IF b.AllUsersWriteACP # "ALLOWED"
                      THEN [b EXCEPT !.AuthUsersWriteACP = "ALLOWED"]
                      ELSE b
                 ELSE [b EXCEPT !.AllUsersWriteACP = "ALLOWED"],
                 Return, reqs, <<put>>)
        ELSE IF AccessDeniedClass(put)
        THEN Out(IF creds
                 THEN [b EXCEPT !.AuthUsersWriteACP = "DENIED"]
                 ELSE [b EXCEPT !.AllUsersWriteACP = "DENIED"],
                 Return, reqs, <<put>>)
        ELSE Out(b, Raise("ClientError", put.code), reqs, <<put>>)

\* check_perm_write_acl refusing only a bucket known not to exist
check_perm_write_acl_UnknownPasses(creds, b, put) ==
    IF b.exists = "NO"
    THEN Out(b, Raise("ValueError", "Bucket might not exist"), <<>>, <<>>)
    ELSE WriteACLProbe(creds, b, put)

\* S3Service.check_perm_write_acl
check_perm_write_acl(creds, b, put) ==
    IF b.exists # "YES"
    THEN Out(b, Raise("ValueError", "Bucket might not exist"), <<>>, <<>>)
    ELSE WriteACLProbe(creds, b, put)

\* for item in page['Contents']: bucket.addObject(s3BucketObject(...))
RECURSIVE AddItems(_, _)
AddItems(b, items) ==
    IF items = <<>> THEN b
    ELSE AddItems(addObject(b, s3BucketObject(Head(items))), Tail(items))

\* the paging loop going on to the next page, instead of returning, at a page
\* without Contents
RECURSIVE Paginate_SkipsBarePage(_, _, _, _, _)
Paginate_SkipsBarePage(b, pages, i, reqs, resps) ==
    IF i > Len(pages)
    THEN Out([b EXCEPT !.objects_enumerated = TRUE], Return, reqs, resps)
    ELSE
    LET page == pages[i]
        reqs1 == Append(reqs, [api |-> "list_objects_v2", Bucket |-> b.name, page |-> i])
        resps1 == Append(resps, page)
    IN  IF ~page.ok
        THEN IF AccessDeniedClass(page)
             THEN Out(b, Raise("AccessDeniedException",
                               "AccessDenied while enumerating bucket objects"),
                      reqs1, resps1)
             ELSE Out([b EXCEPT !.objects_enumerated = TRUE], Return, reqs1, resps1)
        ELSE IF "Contents" \notin DOMAIN page.body
        THEN Paginate_SkipsBarePage([b EXCEPT !.objects_enumerated = TRUE],
                                    pages, i + 1, reqs1, resps1)
        ELSE Paginate_SkipsBarePage(AddItems(b, page.body.Contents),
                                    pages, i + 1, reqs1, resps1)

\* the paging loop of enumerate_bucket_objects from page i on, with its
\* except clause and the statement after it
RECURSIVE Paginate(_, _, _, _, _)
Paginate(b, pages, i, reqs, resps) ==
    IF i > Len(pages)
    THEN Out([b EXCEPT !.objects_enumerated = TRUE], Return, reqs, resps)
    ELSE
    LET page == pages[i]
        reqs1 == Append(reqs, [api |-> "list_objects_v2", Bucket |-> b.name, page |-> i])
        resps1 == Append(resps, page)
    IN  IF ~page.ok
        THEN IF AccessDeniedClass(page)
             THEN Out(b, Raise("AccessDeniedException",
                               "AccessDenied while enumerating bucket objects"),
                      reqs1, resps1)
             ELSE Out([b EXCEPT !.objects_enumerated = TRUE], Return, reqs1, resps1)
        ELSE IF "Contents" \notin DOMAIN page.body
        THEN Out([b EXCEPT !.objects_enumerated = TRUE], Return, reqs1, resps1)
        ELSE Paginate(AddItems(b, page.body.Contents), pages, i + 1, reqs1, resps1)

\* enumerate_bucket_objects listing the bucket without settling its existence
enumerate_bucket_objects_NoCheck(b, head, pages) ==
    IF b.exists = "NO"
    THEN Out(b, Raise("Exception", "Bucket doesn't exist"), <<>>, <<>>)
    ELSE Paginate(b, pages, 1, <<>>, <<>>)

\* S3Service.enumerate_bucket_objects
enumerate_bucket_objects(b, head, pages) ==
    LET checked == IF b.exists = "UNKNOWN"
                   THEN check_bucket_exists(b, head)
                   ELSE Out(b, Return, <<>>, <<>>)
        b1 == checked.bucket
    IN  IF b1.exists = "NO"
        THEN Out(b1, Raise("Exception", "Bucket doesn't exist"),
                 checked.requests, checked.responses)
        ELSE Paginate(b1, pages, 1, checked.requests, checked.responses)

-----------------------------------------------------------------------------
(* What the caller passes and what the backend answers. *)

BucketName == "bucket"

\* an object that is no s3Bucket
NotABucket == [name |-> BucketName]

\* sequences over S of length lo..hi
SeqsOf(S, lo, hi) == UNION {[1..n -> S] : n \in lo..hi}

Grant(type, uri, permission) ==
    [Grantee |-> [Type |-> type, URI |-> uri], Permission |-> permission]

\* grants an ACL read can return: every permission to each of the two groups,
\* and grants parse_found_acl has to ignore
GrantUniverse ==
    {Grant("Group", AllUsersGroup, p) : p \in {"FULL_CONTROL", "READ", "WRITE_ACP"}}
    \cup {Grant("Group", AuthUsersGroup, p) : p \in {"FULL_CONTROL", "WRITE", "READ_ACP"}}
    \cup {Grant("Group", "http://acs.amazonaws.com/groups/s3/LogDelivery", "WRITE"),
          Grant("CanonicalUser", AllUsersGroup, "FULL_CONTROL")}

\* bodies of a successful get_bucket_acl
ACLBodies ==
    {[Owner |-> "owner"]}
    \cup {[Owner |-> "owner", Grants |-> gs] : gs \in SeqsOf(GrantUniverse, 0, MaxGrants)}

ACLResponses == {Success(a) : a \in ACLBodies} \cup Failures

Item(key) == [Key |-> key, LastModified |-> 0, Size |-> 0]

\* bodies of one page of list_objects_v2: without a Contents field, or with items
PageBodies ==
    {[KeyCount |-> 0],
     [KeyCount |-> 1, Contents |-> <<Item("a")>>],
     [KeyCount |-> 2, Contents |-> <<Item("b"), Item("a")>>]}

\* what the paginator yields: pages in order, the last fetch possibly failing
Listings ==
    {l \in SeqsOf({Success(p) : p \in PageBodies} \cup Failures, 1, MaxPages) :
        \A i \in 1..(Len(l) - 1) : l[i].ok}

\* answers to the head_bucket of enumerate_bucket_objects, requested only when
\* the bucket's existence is unknown
HeadResponses(b) == IF b.exists = "UNKNOWN" THEN PlainResponses ELSE {Success("")}

\* answers to delete_object, which is requested only after put_object succeeded
DeleteResponses(put) == IF put.ok THEN PlainResponses ELSE {put}

\* wall-clock timestamps
Timestamps == {1, 2}

-----------------------------------------------------------------------------
(* The state machine. *)

\* the constructor looking at the ambient credentials only
S3ServiceInit_IgnoresForce(force, creds) ==
    IF creds = "None" \/ creds = "NoAccessKey"
    THEN [aws_creds_configured |-> FALSE, s3_client |-> "unsigned"]
    ELSE [aws_creds_configured |-> TRUE, s3_client |-> "signed"]

\* S3Service.__init__
S3ServiceInit(force, creds) ==
    IF force \/ creds = "None" \/ creds = "NoAccessKey"
    THEN [aws_creds_configured |-> FALSE, s3_client |-> "unsigned"]
    ELSE [aws_creds_configured |-> TRUE, s3_client |-> "signed"]

\* the ambient credential context: no credentials, credentials without an
\* access key, credentials with one
Credentials == {"None", "NoAccessKey", "AccessKey"}

Init ==
    /\ \E force \in BOOLEAN, creds \in Credentials :
           /\ given = [forceNoCreds |-> force, credentials |-> creds]
           /\ aws_creds_configured = S3ServiceInit(force, creds).aws_creds_configured
           /\ s3_client = S3ServiceInit(force, creds).s3_client
    /\ bucket = s3Bucket(BucketName)
    /\ pre = bucket
    /\ lastOp = "__init__"
    /\ result = Return
    /\ requests = <<>>
    /\ responses = <<>>
    /\ listing = <<>>
    /\ calls = 0

\* a call of operation op on the object passed, the backend holding the pages
\* `held`, that ended as out says
Call(op, passed, out, held) ==
    /\ calls < MaxCalls
    /\ calls' = calls + 1
    /\ pre' = bucket
    /\ bucket' = out.bucket
    /\ lastOp' = op
    /\ given' = [bucket |-> passed]
    /\ result' = out.result
    /\ requests' = out.requests
    /\ responses' = out.responses
    /\ listing' = held
    /\ UNCHANGED service

CheckBucketExists ==
    \E head \in PlainResponses :
        Call("check_bucket_exists", bucket, check_bucket_exists(bucket, head), <<>>)

\* check_bucket_exists called with something that is no s3Bucket
CheckBucketExistsNotABucket ==
    \E head \in PlainResponses :
        LET out == check_bucket_exists(NotABucket, head)
        IN  Call("check_bucket_exists", NotABucket, [out EXCEPT !.bucket = bucket], <<>>)

CheckPermReadACL ==
    \E acl \in ACLResponses :
        Call("check_perm_read_acl", bucket,
             check_perm_read_acl(aws_creds_configured, bucket, acl),
             <<>>)

CheckPermRead ==
    \E resp \in PlainResponses :
        Call("check_perm_read", bucket,
             check_perm_read(aws_creds_configured, bucket, resp), <<>>)

CheckPermWrite ==
    \E now \in Timestamps, put \in PlainResponses :
      \E del \in DeleteResponses(put) :
        Call("check_perm_write", bucket,
             check_perm_write(aws_creds_configured, bucket, now, put, del), <<>>)

CheckPermWriteACL ==
    \E put \in PlainResponses :
        Call("check_perm_write_acl", bucket,
             check_perm_write_acl(aws_creds_configured, bucket, put), <<>>)

EnumerateBucketObjects ==
    /\ Len(bucket.objects) < MaxObjects
    /\ \E head \in HeadResponses(bucket), pages \in Listings :
          Call("enumerate_bucket_objects", bucket,
               enumerate_bucket_objects(bucket, head, pages), pages)

\* a caller that probes permissions
NextProbe ==
    \/ CheckBucketExists
    \/ CheckBucketExistsNotABucket
    \/ CheckPermReadACL
    \/ CheckPermRead
    \/ CheckPermWrite
    \/ CheckPermWriteACL

SpecProbe == Init /\ [][NextProbe]_vars

\* a caller that lists objects
NextEnum ==
    \/ CheckBucketExists
    \/ EnumerateBucketObjects

SpecEnum == Init /\ [][NextEnum]_vars

\* The bucket's fields are plain attributes the caller can assign: a service
\* handed an existing bucket whose ten flags hold any values.
InitAnyFlags ==
    /\ \E force \in BOOLEAN, creds \in Credentials :
           /\ given = [forceNoCreds |-> force, credentials |-> creds]
           /\ aws_creds_configured = S3ServiceInit(force, creds).aws_creds_configured
           /\ s3_client = S3ServiceInit(force, creds).s3_client
    /\ \E flags \in [Flags -> Permission] :
           bucket = [f \in DOMAIN s3Bucket(BucketName) |->
                        IF f \in Flags THEN flags[f]
                        ELSE IF f = "exists" THEN "YES"
                        ELSE s3Bucket(BucketName)[f]]
    /\ pre = bucket
    /\ lastOp = "__init__"
    /\ result = Return
    /\ requests = <<>>
    /\ responses = <<>>
    /\ listing = <<>>
    /\ calls = 0

\* a caller that runs the ACL-write probe once on the bucket it was handed
NextWriteACL == lastOp = "__init__" /\ CheckPermWriteACL

SpecWriteACL == InitAnyFlags /\ [][NextWriteACL]_vars

\* any caller
Next ==
    \/ NextProbe
    \/ EnumerateBucketObjects

Spec == Init /\ [][Next]_vars

-----------------------------------------------------------------------------
(* Properties. *)

PermProbes == {"check_perm_read_acl", "check_perm_read", "check_perm_write",
               "check_perm_write_acl"}

\* the failure of a probe called on a bucket not known to exist
InvalidState == Raise("ValueError", "Bucket might not exist")

\* the last call issued one request and the backend answered it with error code c
AnsweredWithCode(c) ==
    Len(responses) = 1 /\ ~responses[1].ok /\ responses[1].code = c

\* C1: after check_bucket_exists whose probe returned "404" the bucket's exists
\* is NO; and each of the four permission probes, called on a bucket whose
\* exists is not YES, fails with InvalidState without any backend request and
\* leaves the bucket as it was.
C1_ProbesNeedExistingBucket ==
    /\ (lastOp = "check_bucket_exists" /\ AnsweredWithCode("404"))
           => bucket.exists = "NO"
    /\ (lastOp \in PermProbes /\ pre.exists # "YES")
           => (result = InvalidState /\ requests = <<>> /\ bucket = pre)

\* a probe refused on a bucket that an existence check found missing
C1_Witness ==
    /\ lastOp = "check_perm_write_acl"
    /\ pre.exists = "NO"
    /\ result = InvalidState

\* C2: check_bucket_exists, once it has issued its probe, returns normally
\* whatever the backend answered, with exists = NO for error code "404" and
\* exists = YES for every other answer, and with every other field of the
\* bucket as before.
C2_ExistsFromProbe ==
    (lastOp = "check_bucket_exists" /\ requests # <<>>)
        => /\ result = Return
           /\ bucket = [pre EXCEPT !.exists =
                            IF AnsweredWithCode("404") THEN "NO" ELSE "YES"]

\* a denied probe turns a bucket recorded as missing into an existing one
C2_Witness ==
    /\ lastOp = "check_bucket_exists"
    /\ AnsweredWithCode("AccessDenied")
    /\ pre.exists = "NO"
    /\ bucket.exists = "YES"

\* the group URI an ACL names principal class p by
GroupOf(p) == IF p = "AuthUsers" THEN AuthUsersGroup ELSE AllUsersGroup

\* the ACL permission value that stands for capability c
ACLPermissionOf(c) ==
    CASE c = "Read" -> "READ"
      [] c = "Write" -> "WRITE"
      [] c = "ReadACP" -> "READ_ACP"
      [] c = "WriteACP" -> "WRITE_ACP"
      [] c = "FullControl" -> "FULL_CONTROL"

\* grant list gs holds a grant of type "Group" to p's group URI with c's
\* permission or with FULL_CONTROL
Granted(gs, p, c) ==
    \E i \in 1..Len(gs) :
        /\ gs[i].Grantee.Type = "Group"
        /\ "URI" \in DOMAIN gs[i].Grantee
        /\ gs[i].Grantee.URI = GroupOf(p)
        /\ gs[i].Permission \in {ACLPermissionOf(c), "FULL_CONTROL"}

\* the last call was a check_perm_read_acl on an existing bucket whose ACL read
\* succeeded and returned a grant list
ReadACLGotGrants ==
    /\ lastOp = "check_perm_read_acl"
    /\ pre.exists = "YES"
    /\ Len(responses) = 1
    /\ responses[1].ok
    /\ "Grants" \in DOMAIN responses[1].body

GrantsRead == responses[1].body.Grants

WriteProbed == lastOp = "check_perm_write" /\ pre.exists = "YES"

\* C5 as claimed: a check_perm_write whose upload succeeded returns with
\* AllUsersWrite = ALLOWED in uncredentialed mode, and in credentialed mode with
\* AuthUsersWrite = ALLOWED when AllUsersWrite was not ALLOWED before and with
\* AuthUsersWrite unchanged when it was.
C5_UploadSuccessMarksWrite ==
    (WriteProbed /\ responses[1].ok /\ result = Return)
        => IF aws_creds_configured
           THEN bucket.AuthUsersWrite =
                    IF pre.AllUsersWrite # "ALLOWED" THEN "ALLOWED"
                    ELSE pre.AuthUsersWrite
           ELSE bucket.AllUsersWrite = "ALLOWED"

\* C10 as claimed: every check_perm_write that passes its precondition follows
\* its upload by a delete of the same key, whatever the upload's outcome, and
\* a failing delete neither fails the call nor changes what the upload's
\* outcome wrote: the call ends as it does when the delete succeeds.
C10_DeleteFollowsSilently ==
    WriteProbed
        => /\ Len(requests) = 2
           /\ requests[1].api = "put_object"
           /\ requests[2].api = "delete_object"
           /\ requests[2].Key = requests[1].Key
           /\ ~responses[2].ok
                  => /\ result = Return
                     /\ bucket = check_perm_write(aws_creds_configured, pre,
                                                  requests[1].Key[1], responses[1],
                                                  Success("")).bucket

\* the parameter of put_bucket_acl that carries capability c's grant list
ParamOf(c) ==
    CASE c = "Read" -> "GrantRead"
      [] c = "Write" -> "GrantWrite"
      [] c = "ReadACP" -> "GrantReadACP"
      [] c = "WriteACP" -> "GrantWriteACP"
      [] c = "FullControl" -> "GrantFullControl"

\* the URI put_bucket_acl names principal class p by
URIOf(p) == IF p = "AuthUsers" THEN authUsersURI ELSE allUsersURI

\* the principal class the service's mode tests
TestedClass == IF aws_creds_configured THEN "AuthUsers" ELSE "AllUsers"

\* the URIs capability c's grant list is to hold: the classes whose flag was
\* ALLOWED, and for WriteACP the class under test
ExpectedURIs(c) ==
    {URIOf(p) : p \in {q \in {"AuthUsers", "AllUsers"} :
                           \/ pre[FlagName(q, c)] = "ALLOWED"
                           \/ (c = "WriteACP" /\ q = TestedClass)}}

\* the URIs in the parameter args carries for capability c
SubmittedURIs(args, c) ==
    IF ParamOf(c) \in DOMAIN args
    THEN {args[ParamOf(c)][i] : i \in 1..Len(args[ParamOf(c)])} \ {","}
    ELSE {}

\* the last call was a check_perm_write_acl that passed its precondition
WriteACLProbed == lastOp = "check_perm_write_acl" /\ pre.exists = "YES"

\* C6: in both modes and whatever the flags, the put_bucket_acl request of
\* check_perm_write_acl carries, for each capability, the AuthenticatedUsers
\* URI exactly when the AuthUsers flag is ALLOWED and the AllUsers URI exactly
\* when the AllUsers flag is ALLOWED, the WriteACP list holding the URI of the
\* class under test besides, and no other URI; a capability's parameter is
\* submitted exactly when its list is not empty, so GrantWriteACP always is.
C6_GrantListsFromFlags ==
    WriteACLProbed
        => /\ Len(requests) = 1
           /\ requests[1].api = "put_bucket_acl"
           /\ DOMAIN requests[1].args \subseteq
                  {"Bucket"} \cup {ParamOf(c) : c \in Capabilities}
           /\ \A c \in Capabilities :
                  /\ SubmittedURIs(requests[1].args, c) = ExpectedURIs(c)
                  /\ ParamOf(c) \in DOMAIN requests[1].args <=> ExpectedURIs(c) # {}
                  /\ ParamOf(c) \in DOMAIN requests[1].args
                         => requests[1].args[ParamOf(c)] # <<>>
           /\ "GrantWriteACP" \in DOMAIN requests[1].args

\* credentialed mode, AuthUsersRead the only flag ALLOWED: the read list and the
\* write-ACL list hold the AuthenticatedUsers URI and nothing else is submitted
C6_Witness ==
    /\ WriteACLProbed
    /\ aws_creds_configured
    /\ \A f \in Flags : pre[f] = "ALLOWED" <=> f = "AuthUsersRead"
    /\ DOMAIN requests[1].args = {"Bucket", "GrantRead", "GrantWriteACP"}
    /\ requests[1].args["GrantRead"] = <<authUsersURI>>
    /\ requests[1].args["GrantWriteACP"] = <<authUsersURI>>

\* the last call was an enumerate_bucket_objects that went on to list the bucket
Enumerated == lastOp = "enumerate_bucket_objects" /\ bucket.exists = "YES"

\* the answers to the last call's listing requests, in order
Fetched ==
    SelectSeq([i \in 1..Len(requests) |->
                   [api |-> requests[i].api, response |-> responses[i]]],
              LAMBDA r : r.api = "list_objects_v2")

\* the last listing request of the last call failed with an error code
FetchFailed == Fetched # <<>> /\ ~Fetched[Len(Fetched)].response.ok

FailureCode == Fetched[Len(Fetched)].response.code

\* the bucket objects recorded for the items of pages, in page and item order
RECURSIVE ObjectsOf(_)
ObjectsOf(pages) ==
    IF pages = <<>> THEN <<>>
    ELSE [i \in 1..Len(Head(pages).body.Contents) |->
              [key |-> Head(pages).body.Contents[i].Key,
               last_modified |-> Head(pages).body.Contents[i].LastModified,
               size |-> Head(pages).body.Contents[i].Size]]
         \o ObjectsOf(Tail(pages))

\* page i of the backend's listing was served and carries no Contents field
Bare(i) == listing[i].ok /\ "Contents" \notin DOMAIN listing[i].body

\* the first page without a Contents field, or one past the last page
FirstBare ==
    IF \E i \in 1..Len(listing) : Bare(i)
    THEN CHOOSE i \in 1..Len(listing) : Bare(i) /\ \A j \in 1..(i - 1) : ~Bare(j)
    ELSE Len(listing) + 1

\* C7 as claimed: a backend failure during the paging whose code is neither
\* "AccessDenied" nor "AllAccessDisabled" makes enumerate_bucket_objects fail
\* with that same failure.
C7_OtherFailurePropagates ==
    (Enumerated /\ FetchFailed /\ FailureCode \notin {"AccessDenied", "AllAccessDisabled"})
        => result = Raise("ClientError", FailureCode)

\* C8: on an existing bucket whose listing fails on no page up to its first
\* page without Contents, enumerate_bucket_objects requests the pages in order
\* up to that page and none after it, appends to the bucket's objects the
\* items of the pages before it in page and item order, sets
\* objects_enumerated and returns; with no such page it does so for all
\* pages.  A listing of three pages whose first has no Contents records nothing.
C8_StopsAtFirstBarePage ==
    (Enumerated /\ \A i \in 1..Len(listing) : i <= FirstBare => listing[i].ok)
        => /\ result = Return
           /\ bucket.objects_enumerated
           /\ Len(Fetched) = IF FirstBare <= Len(listing) THEN FirstBare ELSE Len(listing)
           /\ \A i \in 1..Len(Fetched) : Fetched[i].response = listing[i]
           /\ bucket.objects = pre.objects \o ObjectsOf(SubSeq(listing, 1, FirstBare - 1))
           /\ (Len(listing) = 3 /\ FirstBare = 1) => bucket.objects = pre.objects

\* three pages, the first without Contents and the later ones with items:
\* nothing is recorded and the pass counts as complete
C8_Witness ==
    /\ Enumerated
    /\ Len(listing) = 3
    /\ Bare(1)
    /\ listing[2].ok /\ ~Bare(2)
    /\ listing[3].ok /\ ~Bare(3)
    /\ Len(Fetched) = 1
    /\ bucket.objects = <<>>
    /\ bucket.objects_enumerated

\* C9: when the listing request for page k fails with "AccessDenied" or
\* "AllAccessDisabled", enumerate_bucket_objects fails with
\* AccessDeniedException, the objects of pages 1..k-1 stay appended to the
\* bucket's objects in order, and objects_enumerated is as before the call.
C9_DenialKeepsCollectedObjects ==
    (Enumerated /\ FetchFailed /\ FailureCode \in {"AccessDenied", "AllAccessDisabled"})
        => /\ result = Raise("AccessDeniedException",
                             "AccessDenied while enumerating bucket objects")
           /\ bucket.objects =
                  pre.objects \o ObjectsOf(SubSeq(listing, 1, Len(Fetched) - 1))
           /\ bucket.objects_enumerated = pre.objects_enumerated

\* a denial on the second page, the first page's objects kept
C9_Witness ==
    /\ Enumerated
    /\ Len(Fetched) = 2
    /\ FetchFailed
    /\ FailureCode = "AllAccessDisabled"
    /\ result.kind = "AccessDeniedException"
    /\ bucket.objects = pre.objects \o ObjectsOf(<<listing[1]>>)
    /\ bucket.objects # pre.objects
    /\ ~bucket.objects_enumerated

\* the last call was a check_perm_read_acl that passed its precondition
ReadACLProbed == lastOp = "check_perm_read_acl" /\ pre.exists = "YES"

\* the one request of the last call was refused with a denial code
Denied ==
    /\ Len(responses) = 1
    /\ ~responses[1].ok
    /\ responses[1].code \in {"AccessDenied", "AllAccessDisabled"}

\* C11 as claimed: a check_perm_read_acl whose get_bucket_acl is refused with
\* "AccessDenied" or "AllAccessDisabled" returns normally with the ReadACP flag
\* of the class under test DENIED, and with the other nine flags and foundACL
\* as they were before the call, whatever calls came before.
C11_DenialDeniesOnlyModeFlag ==
    (ReadACLProbed /\ Denied)
        => /\ result = Return
           /\ bucket[FlagName(TestedClass, "ReadACP")] = "DENIED"
           /\ \A f \in Flags \ {FlagName(TestedClass, "ReadACP")} : bucket[f] = pre[f]
           /\ bucket.foundACL = pre.foundACL

\* the last call was a check_perm_read that passed its precondition
ReadProbed == lastOp = "check_perm_read" /\ pre.exists = "YES"

\* C12: check_perm_read on an existing bucket issues one list_objects_v2 with
\* MaxKeys = 0.  When it succeeds or is refused with a denial code the call
\* returns, and the flag is ALLOWED for success and DENIED for denial: in
\* uncredentialed mode AllUsersRead, whatever it held; in credentialed mode
\* AuthUsersRead when AllUsersRead was not ALLOWED, AuthUsersRead keeping its
\* value for both outcomes when AllUsersRead was ALLOWED.
C12_ReadRule ==
    ReadProbed
        => /\ requests = <<[api |-> "list_objects_v2", Bucket |-> pre.name, MaxKeys |-> 0]>>
           /\ (responses[1].ok \/ Denied)
                  => /\ result = Return
                     /\ LET perm == IF responses[1].ok THEN "ALLOWED" ELSE "DENIED"
                        IN  IF aws_creds_configured
                            THEN bucket.AuthUsersRead =
                                     IF pre.AllUsersRead # "ALLOWED" THEN perm
                                     ELSE pre.AuthUsersRead
                            ELSE bucket.AllUsersRead = perm

\* credentialed mode, the bucket publicly readable by its ACL: a listing that
\* succeeds leaves AuthUsersRead at DENIED
C12_Witness ==
    /\ ReadProbed
    /\ aws_creds_configured
    /\ pre.AllUsersRead = "ALLOWED"
    /\ pre.AuthUsersRead = "DENIED"
    /\ responses[1].ok
    /\ result = Return
    /\ bucket.AuthUsersRead = "DENIED"

\* C13: check_perm_write_acl on an existing bucket records the outcome of its
\* put_bucket_acl: on success AllUsersWriteACP = ALLOWED in uncredentialed
\* mode, and in credentialed mode AuthUsersWriteACP = ALLOWED when
\* AllUsersWriteACP was not ALLOWED and AuthUsersWriteACP unchanged when it
\* was; on a denial code the WriteACP flag of the class under test is DENIED
\* whatever it held; with any other code the call fails with that failure.
C13_WriteACLRule ==
    WriteACLProbed
        => /\ responses[1].ok
                  => /\ result = Return
                     /\ IF aws_creds_configured
                        THEN bucket.AuthUsersWriteACP =
                                 IF pre.AllUsersWriteACP # "ALLOWED" THEN "ALLOWED"
                                 ELSE pre.AuthUsersWriteACP
                        ELSE bucket.AllUsersWriteACP = "ALLOWED"
           /\ Denied
                  => /\ result = Return
                     /\ bucket[FlagName(TestedClass, "WriteACP")] = "DENIED"
           /\ (~responses[1].ok /\ ~Denied)
                  => result = Raise("ClientError", responses[1].code)

\* a denied ACL write on a bucket whose WriteACP flag for the class under test
\* was ALLOWED
C13_Witness ==
    /\ WriteACLProbed
    /\ Denied
    /\ pre[FlagName(TestedClass, "WriteACP")] = "ALLOWED"
    /\ result = Return
    /\ bucket[FlagName(TestedClass, "WriteACP")] = "DENIED"

\* the failure of enumerate_bucket_objects on a bucket that does not exist
NotFound == Raise("Exception", "Bucket doesn't exist")

\* the apis of the last call's requests, in order
Apis == [i \in 1..Len(requests) |-> requests[i].api]

\* C14: enumerate_bucket_objects called with exists = UNKNOWN first issues the
\* head_bucket of the existence check, so that exists is YES or NO before any
\* listing request; whenever exists is NO then, on entry or by that check, it
\* fails with NotFound, issues no listing request and leaves objects and
\* objects_enumerated as they were; called with exists = YES it issues no
\* head_bucket.
C14_ExistenceSettledFirst ==
    lastOp = "enumerate_bucket_objects"
        => /\ pre.exists = "UNKNOWN"
                  => /\ requests # <<>>
                     /\ Apis[1] = "head_bucket"
                     /\ \A i \in 2..Len(requests) : Apis[i] = "list_objects_v2"
                     /\ bucket.exists = (IF ~responses[1].ok /\ responses[1].code = "404"
                                         THEN "NO" ELSE "YES")
           /\ pre.exists # "UNKNOWN"
                  => /\ bucket.exists = pre.exists
                     /\ \A i \in 1..Len(requests) : Apis[i] # "head_bucket"
           /\ bucket.exists = "NO"
                  => /\ result = NotFound
                     /\ \A i \in 1..Len(requests) : Apis[i] # "list_objects_v2"
                     /\ bucket.objects = pre.objects
                     /\ bucket.objects_enumerated = pre.objects_enumerated
           /\ bucket.exists = "YES" => Fetched # <<>>

\* called on a bucket of unknown existence that the check finds missing
C14_Witness ==
    /\ lastOp = "enumerate_bucket_objects"
    /\ pre.exists = "UNKNOWN"
    /\ Apis = <<"head_bucket">>
    /\ responses[1] = ClientError("404")
    /\ bucket.exists = "NO"
    /\ result = NotFound
    /\ ~bucket.objects_enumerated

\* C15: the constructor makes the service credentialed exactly when
\* forceNoCreds is false and the ambient credentials hold an access key, with
\* a signed client then and an unsigned one otherwise; so forcing gives the
\* uncredentialed mode even with credentials present, and so do absent
\* credentials.  No call of a probe operation changes the mode or the client.
C15_ModeFixedAtConstruction ==
    /\ aws_creds_configured = (~given.forceNoCreds /\ given.credentials = "AccessKey")
    /\ s3_client = (IF aws_creds_configured THEN "signed" ELSE "unsigned")
    /\ [][service' = service]_vars

\* a service constructed uncredentialed, still uncredentialed and holding its
\* unsigned client after MaxCalls calls, the last one a probe on an existing bucket
C15_Witness ==
    /\ calls = MaxCalls
    /\ lastOp \in PermProbes
    /\ pre.exists = "YES"
    /\ ~aws_creds_configured
    /\ s3_client = "unsigned"

\* C16 as claimed: objects_enumerated is false on a new bucket and becomes
\* true only in an enumerate_bucket_objects call whose listing requests all
\* succeeded (the pass consumed every page or reached a page without
\* Contents); a call whose listing request failed leaves it as it was, and so
\* does every other operation.
C16_EnumeratedOnlyByCompletePass ==
    /\ lastOp = "__init__" => ~bucket.objects_enumerated
    /\ (bucket.objects_enumerated /\ ~pre.objects_enumerated)
           => /\ lastOp = "enumerate_bucket_objects"
              /\ Fetched # <<>>
              /\ ~FetchFailed
    /\ (lastOp = "enumerate_bucket_objects" /\ FetchFailed)
           => bucket.objects_enumerated = pre.objects_enumerated

\* C17: whatever operation was called and whatever the backend answered, in
\* either mode, a permission flag that was not UNKNOWN before the call is not
\* UNKNOWN after it, exists is not UNKNOWN after a call it was YES or NO
\* before, and the bucket's name is the one it was created with.
C17_NeverBackToUnknown ==
    /\ \A f \in Flags : pre[f] # "UNKNOWN" => bucket[f] # "UNKNOWN"
    /\ pre.exists # "UNKNOWN" => bucket.exists # "UNKNOWN"
    /\ bucket.name = pre.name
    /\ bucket.name = BucketName

\* a bucket whose flags an ACL read had all settled, after a further probe
\* that rewrote one of them
C17_Witness ==
    /\ lastOp \in PermProbes \ {"check_perm_read_acl"}
    /\ \A f \in Flags : pre[f] # "UNKNOWN"
    /\ \E f \in Flags : bucket[f] # pre[f]
    /\ \A f \in Flags : bucket[f] # "UNKNOWN"
    /\ bucket.exists = "YES"

\* the capability the probe `op` tests
ProbedCapability(op) ==
    CASE op = "check_perm_read" -> "Read"
      [] op = "check_perm_write" -> "Write"
      [] op = "check_perm_write_acl" -> "WriteACP"

\* C18: check_perm_read, check_perm_write and check_perm_write_acl change no
\* field of the bucket but the flag of their own capability for the class
\* under test: no AuthUsers flag in uncredentialed mode, no AllUsers flag in
\* credentialed mode, no flag of another capability, and neither exists,
\* foundACL, objects nor objects_enumerated, whatever the bucket held and
\* whatever the backend answered.
C18_ProbeWritesOwnFlagOnly ==
    lastOp \in {"check_perm_read", "check_perm_write", "check_perm_write_acl"}
        => /\ \A f \in DOMAIN bucket \ {FlagName(TestedClass, ProbedCapability(lastOp))} :
                  bucket[f] = pre[f]
           /\ ~aws_creds_configured => \A f \in AuthFlags : bucket[f] = pre[f]
           /\ aws_creds_configured => \A f \in AllFlags : bucket[f] = pre[f]

\* credentialed mode: an upload that succeeds marks AuthUsersWrite and nothing else
C18_Witness ==
    /\ lastOp = "check_perm_write"
    /\ aws_creds_configured
    /\ pre.AuthUsersWrite = "UNKNOWN"
    /\ bucket.AuthUsersWrite = "ALLOWED"
    /\ bucket.AllUsersWrite = "UNKNOWN"
    /\ bucket = [pre EXCEPT !.AuthUsersWrite = "ALLOWED"]

\* C19 as claimed: a permission probe that fails with the backend's failure,
\* its code being neither "AccessDenied" nor "AllAccessDisabled", leaves the
\* bucket exactly as it was before the call.
C19_PropagatedFailureWritesNothing ==
    (lastOp \in PermProbes /\ result.kind = "ClientError")
        => bucket = pre

====
